---- MODULE Spec2Model ----
(***************************************************************************)
(* DynInspector: the breakpoint-driven inspection engine.                  *)
(*                                                                         *)
(* DynInspector (src/src/dyninspector.py) is the session controller and    *)
(* phase state machine; DynLldb (src/src/dynlldb.py) is the breakpoint     *)
(* registry, the table scanner and the address-space reader.  The          *)
(* inspected process and the debugger backend are the environment: every   *)
(* resume of the process ends either with its exit or with a stop at the   *)
(* address of an enabled breakpoint.                                       *)
(*                                                                         *)
(* A handler is a Qt slot.  A Python exception raised inside a slot ends   *)
(* the slot at the raising statement: the assignments made before it       *)
(* stay, the ones after it are not made.  Each handler below is written    *)
(* as the function its statements compute, in statement order, so that     *)
(* the place of every raise is visible.                                    *)
(*                                                                         *)
(* Strings that hold numbers (instruction operands, register values, the   *)
(* formatted table values) are sequences of hexadecimal digits 0..15; the  *)
(* "0x" prefix that int(s, 16) accepts and hex() produces is left out.     *)
(* Addresses are 8 bits wide in the model.                                 *)
(***************************************************************************)
EXTENDS Integers, Sequences, FiniteSets, TLC

VARIABLES mode, state, step, elf, bp_func, debugger, proc, out, log, cmd,
          orphaned, failure, queue, running, sent, served

vars == <<mode, state, step, elf, bp_func, debugger, proc, out, log, cmd,
          orphaned, failure, queue, running, sent, served>>

\* The engine's side of the session and the signal delivery between the
\* presentation thread and the engine's thread.
engine == <<mode, state, step, elf, bp_func, debugger, proc, out, log, cmd,
            orphaned, failure>>
delivery == <<queue, running, sent, served>>

---------------------------------------------------------------------------
(* Bounds of the model *)

\* Continue is not taken once the registry holds this many records.
MaxBps == 6

\* The presentation thread sends at most this many commands while the
\* delivery of the signals is followed one event at a time.
MaxSent == 4

---------------------------------------------------------------------------
(* Program constants *)

STEPS == 5

\* DynInspector.ExecStates
NONE == 0
START_BP_SET == 1
ON_BP_SHOW_PREV_FRAME == 3
ON_BP_SHOW_CURR_FRAME == 4
STEP_INST_PLT == 5
SKIP_TO_NEXT_BP == 6
EXIT == 7
INVOKE_LOADER == 8
CALL_FUNC == 9
RET == 10

\* DynInspector.AppMode
DYN_LINK == 0
DYN_LOAD == 1

\* DynLldb.ProcessState
STOPPED == 0
EXITED == 1

\* DynLldb.Breakpoint tags
PLT_BP == 0
RET_FROM_PLT_BP == 1
DLOPEN_BP == 2
DLSYM_BP == 3
DLCLOSE_BP == 4
RET_FROM_DLOPEN == 5
RET_FROM_DLCLOSE == 6
RET_FROM_DLSYM == 7
DYN_CALL_FUNC_BP == 8
RET_FROM_DYN_CALL == 9

\* Python's None, for names and handles, and for program counters.
None == "None"
NoPc == -1

\* The value the backend's pointer read yields when the read fails
\* (all ones at the model's address width).
InvalidAddr == 255

---------------------------------------------------------------------------
(* The target images and the inspected process (environment) *)

\* Three executable images.  SymbolsOf is the order in which the backend
\* enumerates the symbols of the image's .plt section.  The stubs of c.out
\* are position independent: the first instruction of its exit stub jumps
\* through a register-relative slot.
Images == {"a.out", "b.out", "c.out"}

\* What the file dialog can return: an image, or a file that is not an
\* executable, for which the backend creates an invalid target.
Files == Images \cup {"notes.txt"}

SymbolsOf(img) ==
    IF img = "a.out" THEN <<"__gmon_start__", "puts", "dlopen", "dlsym", "dlclose">>
    ELSE IF img = "b.out" THEN <<"printf", "puts", "dlsym">>
    ELSE IF img = "c.out" THEN <<"exit", "puts">>
    ELSE <<>>

\* The library a.out loads with dlopen and unloads with dlclose.
Plugin == "libplugin.so"

RECURSIVE IndexOf(_, _)
IndexOf(s, x) == IF s = <<>> THEN 0
                 ELSE IF Head(s) = x THEN 1
                 ELSE LET r == IndexOf(Tail(s), x) IN IF r = 0 THEN 0 ELSE r + 1

Range(s) == {s[i] : i \in DOMAIN s}

AllNames == UNION {Range(SymbolsOf(img)) : img \in Images}

\* The names the function selector sends: one that both images have, one
\* that only b.out has, and the empty text (sent when the selector is
\* cleared).
Selectable == {"puts", "printf", ""}

\* Stubs are 16 bytes apart; the slot of the i-th stub is 4 bytes wide.
StubAddr(img, name) == 16 * IndexOf(SymbolsOf(img), name)
SlotAddr(img, name) == 160 + 4 * IndexOf(SymbolsOf(img), name)

\* The stop at main after launch, and the caller of main.
MainAddr == 96
StartAddr == MainAddr + 3
\* Return addresses of the call sites of the program.
RetAddrs == {97, 98}
\* What the return-value register holds after a symbol lookup: the address
\* of a routine of the library.
EaxValues == {<<14, 1>>, <<14, 2>>}

\* Memory of a freshly launched process: every slot points back into its
\* stub, past the 6-byte indirect jump (lazy binding not yet done).
InitMem(img) ==
    [a \in {SlotAddr(img, n) : n \in Range(SymbolsOf(img))} |-> 4 * (a - 160) + 6]

\* libs: whether the process has the library mapped.
NoProc == [st |-> "none", pc |-> NoPc, fp1 |-> NoPc, eax |-> <<0>>, mem |-> <<>>,
           libs |-> FALSE]

\* The invalid process object the backend returns for a launch that failed.
InvalidProc == [NoProc EXCEPT !.st = "invalid"]

Launched(img) ==
    [st |-> "stopped", pc |-> MainAddr, fp1 |-> StartAddr, eax |-> <<0>>,
     mem |-> InitMem(img), libs |-> FALSE]

\* The sections of a module, in the order in which the backend enumerates
\* them: name, load address in a live process, offset in the file and
\* size.  A section that is not mapped has the invalid address as its load
\* address.  The library was linked with a script that puts .data before
\* .text in the file while .text is mapped below .data.
SectionsOf(m) ==
    IF m = Plugin
    THEN << [name |-> ".comment", load |-> InvalidAddr, offset |-> 16, size |-> 4],
            [name |-> ".data", load |-> 240, offset |-> 8, size |-> 8],
            [name |-> ".text", load |-> 224, offset |-> 0, size |-> 8] >>
    ELSE IF m = "libc.so.6"
    THEN << [name |-> ".text", load |-> 208, offset |-> 0, size |-> 16] >>
    ELSE << [name |-> ".plt", load |-> 16, offset |-> 16, size |-> 80],
            [name |-> ".text", load |-> 96, offset |-> 96, size |-> 16],
            [name |-> ".got.plt", load |-> 160, offset |-> 112, size |-> 32],
            [name |-> ".comment", load |-> InvalidAddr, offset |-> 144, size |-> 4] >>

---------------------------------------------------------------------------
(* Conversions *)

IsHex(s) == s # <<>> /\ \A i \in DOMAIN s : s[i] \in 0..15

\* int(s, 16)
RECURSIVE ParseHex(_)
ParseHex(s) == IF s = <<>> THEN 0
               ELSE 16 * ParseHex(SubSeq(s, 1, Len(s) - 1)) + s[Len(s)]

\* hex(n).rstrip("L")
RECURSIVE HexStr(_)
HexStr(n) == IF n < 16 THEN <<n>> ELSE Append(HexStr(n \div 16), n % 16)

\* str.startswith('__')
StartsWithUU(name) == name \in {"__gmon_start__"}

\* The operand text of the first instruction of a stub: '*' followed by
\* the slot address.
Star == 16
\* A character of an operand that is not a hexadecimal digit, as in
\* '*0xc(%ebx)'.
Paren == 17
RegisterRelative(img, name) == img = "c.out" /\ name = "exit"

OperandOf(img, name) ==
    IF RegisterRelative(img, name)
    THEN <<Star>> \o HexStr(SlotAddr(img, name)) \o <<Paren>>
    ELSE <<Star>> \o HexStr(SlotAddr(img, name))

---------------------------------------------------------------------------
(* DynLldb *)

EmptyPlt == [n \in {} |-> 0]

\* A reset that keeps the breakpoint records.
clean_keeps_bps(d) ==
    [elf |-> None, target |-> None, process |-> None, plt |-> EmptyPlt,
     bps |-> d.bps, bp_func_name |-> None, saved_pc |-> NoPc,
     static_modules |-> <<>>]

\* DynLldb.__init__ / DynLldb.clean
clean(d) ==
    [elf |-> None, target |-> None, process |-> None, plt |-> EmptyPlt,
     bps |-> <<>>, bp_func_name |-> None, saved_pc |-> NoPc,
     static_modules |-> <<>>]

\* DynLldb.set_elf: the backend creates a target for the file; the target
\* object is invalid when the file is not an executable.
DynLldb_set_elf(d, path) ==
    [clean(d) EXCEPT !.elf = path, !.target = path]

\* What DynLldb.set_elf returns: "if self.target: return True else: return
\* False".
set_elf_rc(path) == IF path \in Images THEN "True" ELSE "False"

\* process.GetState() == lldb.eStateStopped
IsStopped(p) == p.st = "stopped"

\* DynLldb.get_pc_from_frame
get_pc_from_frame(d, p, frame) ==
    IF d.process = None THEN NoPc
    ELSE IF IsStopped(p) THEN (IF frame = 0 THEN p.pc ELSE p.fp1)
    ELSE NoPc

\* DynLldb.get_process_state (None is returned when no process is attached)
get_process_state(d, p) ==
    IF d.process = None THEN -1
    ELSE IF IsStopped(p) THEN STOPPED ELSE EXITED

\* DynLldb.get_function_return_value: the text of the return-value register,
\* or None (here the empty text) when there is nothing to read.
get_function_return_value(d, p) ==
    IF d.process = None THEN <<>>
    ELSE IF IsStopped(p) THEN p.eax ELSE <<>>

\* process.ReadPointerFromMemory
ReadPointerFromMemory(p, a) ==
    IF IsStopped(p) /\ a \in DOMAIN p.mem THEN p.mem[a] ELSE InvalidAddr

NewBreakpoint(addr, tag, callback, en) ==
    [addr |-> addr, tag |-> tag, callback |-> callback, enabled |-> en]

\* The callbacks: each appends one record at the caller's return address,
\* backed by a backend breakpoint (enabled when created).
on_dlopen_called(d, p) ==
    [d EXCEPT !.bps = Append(@, NewBreakpoint(get_pc_from_frame(d, p, 1),
                         RET_FROM_DLOPEN, "on_return_from_dlopen", TRUE))]

on_dlclose_called(d, p) ==
    [d EXCEPT !.bps = Append(@, NewBreakpoint(get_pc_from_frame(d, p, 1),
                         RET_FROM_DLCLOSE, "on_return_from_dlclose", TRUE))]

on_dlsym_called_frame0(d, p) ==
    [d EXCEPT !.bps = Append(@, NewBreakpoint(get_pc_from_frame(d, p, 0),
                         RET_FROM_DLSYM, "on_return_from_dlsym", TRUE))]

on_dlsym_called(d, p) ==
    [d EXCEPT !.bps = Append(@, NewBreakpoint(get_pc_from_frame(d, p, 1),
                         RET_FROM_DLSYM, "on_return_from_dlsym", TRUE))]

on_return_from_dlsym(d, p) ==
    [d EXCEPT !.bps = Append(@, NewBreakpoint(
                         ParseHex(get_function_return_value(d, p)),
                         DYN_CALL_FUNC_BP, "on_dynamic_function_call", TRUE))]

on_dynamic_function_call_twice(d, p) ==
    [d EXCEPT !.bps = @ \o << NewBreakpoint(get_pc_from_frame(d, p, 1),
                         RET_FROM_DYN_CALL,
                         "on_return_from_dynamic_function_call", TRUE),
                         NewBreakpoint(get_pc_from_frame(d, p, 1),
                         RET_FROM_DYN_CALL,
                         "on_return_from_dynamic_function_call", TRUE) >>]

on_dynamic_function_call(d, p) ==
    [d EXCEPT !.bps = Append(@, NewBreakpoint(get_pc_from_frame(d, p, 1),
                         RET_FROM_DYN_CALL,
                         "on_return_from_dynamic_function_call", TRUE))]

on_plt_breakpoint(d, p) ==
    [d EXCEPT !.bps = Append(@, NewBreakpoint(get_pc_from_frame(d, p, 1),
                         RET_FROM_PLT_BP, "on_return_from_plt", TRUE))]

\* on_return_from_dlopen, on_return_from_dlclose,
\* on_return_from_dynamic_function_call, on_return_from_plt: logging only.
on_return(d, p) == d

Call(callback, d, p) ==
    CASE callback = "on_dlopen_called" -> on_dlopen_called(d, p)
      [] callback = "on_dlclose_called" -> on_dlclose_called(d, p)
      [] callback = "on_dlsym_called" -> on_dlsym_called(d, p)
      [] callback = "on_return_from_dlsym" -> on_return_from_dlsym(d, p)
      [] callback = "on_dynamic_function_call" -> on_dynamic_function_call(d, p)
      [] callback = "on_plt_breakpoint" -> on_plt_breakpoint(d, p)
      [] OTHER -> on_return(d, p)

\* DynLldb.invoke_breakpoint_callback: the loop runs over the list while the
\* callbacks append to it, so it also visits the records they append.
RECURSIVE InvokeFrom(_, _, _)
InvokeFrom(d, p, i) ==
    IF i > Len(d.bps) THEN d
    ELSE IF get_pc_from_frame(d, p, 0) = d.bps[i].addr
         THEN InvokeFrom(Call(d.bps[i].callback, d, p), p, i + 1)
         ELSE InvokeFrom(d, p, i + 1)

\* A dispatch that runs no callback.
invoke_no_callback(d, p) == d

invoke_breakpoint_callback(d, p) == InvokeFrom(d, p, 1)

\* A lookup that ignores the pc and returns the first record of the registry.
get_first_breakpoint(d, p) ==
    IF d.bps = <<>> THEN [kind |-> "None", tag |-> -1, addr |-> -1]
    ELSE [kind |-> "bp", tag |-> d.bps[1].tag, addr |-> d.bps[1].addr]

\* DynLldb.get_current_breakpoint: the first record at the current pc, or
\* None.  Returned as [kind, tag, addr].
NoBp == [kind |-> "None", tag |-> -1, addr |-> NoPc]
TupleNone == [kind |-> "tuple", tag |-> -1, addr |-> NoPc]

get_current_breakpoint(d, p) ==
    LET pc == get_pc_from_frame(d, p, 0)
        hits == {i \in DOMAIN d.bps : d.bps[i].addr = pc}
    IN IF hits = {} THEN NoBp
       ELSE LET i == CHOOSE i \in hits : \A j \in hits : i <= j
            IN [kind |-> "bp", tag |-> d.bps[i].tag, addr |-> d.bps[i].addr]

\* A refresh that also re-binds the slot address of every entry to the
\* value it read.
read_got_rebinds(d, p) ==
    [d EXCEPT !.plt = [n \in DOMAIN d.plt |->
        [d.plt[n] EXCEPT !.got_addr =
            HexStr(ReadPointerFromMemory(p, ParseHex(d.plt[n].got_addr))),
                         !.got_value =
            HexStr(ReadPointerFromMemory(p, ParseHex(d.plt[n].got_addr)))]]]

\* A refresh that appends what it read to the text of the value.
read_got_appends(d, p) ==
    [d EXCEPT !.plt = [n \in DOMAIN d.plt |->
        [d.plt[n] EXCEPT !.got_value =
            @ \o HexStr(ReadPointerFromMemory(p, ParseHex(d.plt[n].got_addr)))]]]

\* DynLldb.read_got: re-reads the value of every known entry.
read_got(d, p) ==
    [d EXCEPT !.plt = [n \in DOMAIN d.plt |->
        [d.plt[n] EXCEPT !.got_value =
            HexStr(ReadPointerFromMemory(p, ParseHex(d.plt[n].got_addr)))]]]

\* The order in which "for key in self.plt" visits the entries.
RECURSIVE SelectIn(_, _)
SelectIn(s, S) == IF s = <<>> THEN <<>>
                  ELSE IF Head(s) \in S THEN <<Head(s)>> \o SelectIn(Tail(s), S)
                  ELSE SelectIn(Tail(s), S)

PltKeys(d) ==
    IF d.target = None THEN <<>> ELSE SelectIn(SymbolsOf(d.target), DOMAIN d.plt)

\* DynLldb.read_plt: one entry per symbol of the .plt section whose name
\* does not start with '__'.  int() raises on an operand that is not a
\* hexadecimal number, which ends the scan there.
RECURSIVE ReadPltFrom(_, _, _, _)
ReadPltFrom(img, p, syms, plt) ==
    IF syms = <<>> THEN [plt |-> plt, raised |-> FALSE]
    ELSE LET name == Head(syms)
             got_plt_addr == Tail(OperandOf(img, name))
         IN IF StartsWithUU(name) THEN ReadPltFrom(img, p, Tail(syms), plt)
            ELSE IF ~IsHex(got_plt_addr) THEN [plt |-> plt, raised |-> TRUE]
            ELSE ReadPltFrom(img, p, Tail(syms),
                   [n \in DOMAIN plt \cup {name} |->
                      IF n = name
                      THEN [name |-> name, addr |-> StubAddr(img, name), bp |-> 0,
                            got_addr |-> got_plt_addr,
                            got_value |-> HexStr(ReadPointerFromMemory(p,
                                              ParseHex(got_plt_addr)))]
                      ELSE plt[n]])

read_plt(d, p) ==
    IF d.process = None THEN [plt |-> d.plt, raised |-> FALSE]
    ELSE IF IsStopped(p) THEN ReadPltFrom(d.target, p, SymbolsOf(d.target), d.plt)
    ELSE [plt |-> d.plt, raised |-> FALSE]

\* target.module_iter(): the executable, and what a live process has mapped.
TargetModules(d, p) ==
    IF d.target = None THEN <<>>
    ELSE IF d.target \notin Images THEN <<>>
    ELSE <<d.target>> \o (IF IsStopped(p) THEN <<"libc.so.6">> ELSE <<>>)
                      \o (IF IsStopped(p) /\ p.libs THEN <<Plugin>> ELSE <<>>)

\* sec.GetLoadAddress(self.target)
GetLoadAddress(p, sec) == IF IsStopped(p) THEN sec.load ELSE InvalidAddr

\* The loop of read_modules over the sections of one module.  range is
\* [start_addr, end_addr, mod_size], with NoPc for a start_addr of None.
RECURSIVE ScanSections(_, _, _)
ScanSections(p, secs, range) ==
    IF secs = <<>> THEN range
    ELSE LET sec == Head(secs)
             load_addr == GetLoadAddress(p, sec)
         IN IF HexStr(load_addr) = HexStr(InvalidAddr)
            THEN ScanSections(p, Tail(secs), range)
            ELSE ScanSections(p, Tail(secs),
                   [start_addr |-> IF range.start_addr = NoPc
                                   THEN load_addr - sec.offset
                                   ELSE range.start_addr,
                    end_addr |-> load_addr + sec.size,
                    mod_size |-> range.mod_size + sec.size])

RECURSIVE ReadModulesFrom(_, _)
ReadModulesFrom(p, mods) ==
    IF mods = <<>> THEN <<>>
    ELSE LET m == Head(mods)
             r == ScanSections(p, SectionsOf(m),
                               [start_addr |-> NoPc, end_addr |-> NoPc, mod_size |-> 0])
         IN IF r.start_addr # NoPc
            THEN << [start |-> HexStr(r.start_addr), end |-> HexStr(r.end_addr),
                     size |-> HexStr(r.mod_size), name |-> m] >>
                 \o ReadModulesFrom(p, Tail(mods))
            ELSE ReadModulesFrom(p, Tail(mods))

\* DynLldb.read_modules: None when there is no target, else one
\* [start, end, size, name] per module that has a mapped section.
read_modules(d, p) ==
    IF d.target = None THEN [none |-> TRUE, list |-> <<>>]
    ELSE [none |-> FALSE, list |-> ReadModulesFrom(p, TargetModules(d, p))]

\* DynLldb.get_modules: iterating None raises TypeError.
get_modules(d, p) ==
    LET new_modules == read_modules(d, p)
    IN IF new_modules.none THEN [raised |-> TRUE, data |-> <<>>]
       ELSE [raised |-> FALSE,
             data |-> [i \in DOMAIN new_modules.list |->
                         [kind |-> IF new_modules.list[i] \in Range(d.static_modules)
                                   THEN "Statically loaded"
                                   ELSE "Dynamically loaded",
                          m |-> new_modules.list[i]]]]

\* DynLldb.SECTIONS
SECTIONS == {".plt", ".text", ".got", ".got_plt", ".data"}

RECURSIVE Flatten(_)
Flatten(ss) == IF ss = <<>> THEN <<>> ELSE Head(ss) \o Flatten(Tail(ss))

\* DynLldb.get_sections: None when no process is attached, else one row per
\* section of the target's modules whose name is in SECTIONS; the row holds
\* the pc when the pc lies in the section.
get_sections(d, p) ==
    LET pc == get_pc_from_frame(d, p, 0)
        mods == TargetModules(d, p)
        rows == Flatten([i \in DOMAIN mods |->
                  LET secs == SelectSeq(SectionsOf(mods[i]),
                                        LAMBDA sec : sec.name \in SECTIONS)
                  IN [j \in DOMAIN secs |->
                        LET load_addr == GetLoadAddress(p, secs[j])
                        IN [start |-> HexStr(load_addr),
                            end |-> HexStr(load_addr + secs[j].size),
                            name |-> <<mods[i], secs[j].name>>,
                            pc |-> IF pc >= load_addr /\ pc <= load_addr + secs[j].size
                                   THEN HexStr(pc) ELSE <<>>]]])
    IN IF d.process = None THEN [none |-> TRUE, list |-> <<>>]
       ELSE [none |-> FALSE, list |-> rows]

\* What target.LaunchSimple returns when the launch fails is a property of
\* the backend the program runs with: None ("not launched"), which
\* DynLldb.run_target tests for, or an invalid process object ("invalid").
LaunchFailures == {"not launched", "invalid"}

\* What target.LaunchSimple can return with a backend whose failed launch
\* returns f: a process stopped at main ("launched"), or f.  There is no
\* launch without a target, and the launch of an invalid target fails.
LaunchOutcomes(d, f) ==
    IF d.target = None THEN {"not launched"}
    ELSE IF d.target \in Images THEN {"launched", f}
    ELSE {f}

\* DynLldb.run_target.  ok: what the launch returns.  Yields the new
\* registry state, the process and whether the call raised.
DynLldb_run_target(d, p, ok) ==
    IF d.target = None THEN [d |-> d, p |-> p, raised |-> FALSE]
    ELSE IF ok = "not launched"
    THEN [d |-> [d EXCEPT !.process = None], p |-> NoProc, raised |-> FALSE]
    ELSE LET d1 == [d EXCEPT !.process = "process"]
             p1 == IF ok = "launched" THEN Launched(d.target) ELSE InvalidProc
             r == read_plt(d1, p1)
         IN IF r.raised THEN [d |-> [d1 EXCEPT !.plt = r.plt], p |-> p1, raised |-> TRUE]
            ELSE [d |-> [d1 EXCEPT !.plt = r.plt,
                                   !.static_modules = read_modules(d1, p1).list],
                  p |-> p1, raised |-> FALSE]

\* A stop that resets nothing.
stop_target_keeps_session(d) == d

\* DynLldb.stop_target: the reset ends in set_elf(self.elf), which cleans
\* everything and creates a fresh target for the same file.
stop_target(d) ==
    IF d.target = None THEN d ELSE DynLldb_set_elf(d, d.elf)

\* DynLldb.create_plt_breakpoints: one disabled StubEntry record per entry;
\* entry.bp is the backend breakpoint of that record (its index here).
RECURSIVE CreatePltFrom(_, _)
CreatePltFrom(d, keys) ==
    IF keys = <<>> THEN d
    ELSE LET key == Head(keys)
             d1 == [d EXCEPT !.bps = Append(@, NewBreakpoint(d.plt[key].addr, PLT_BP,
                                              "on_plt_breakpoint", FALSE)),
                             !.plt[key].bp = Len(d.bps) + 1]
         IN CreatePltFrom(d1, Tail(keys))

create_plt_breakpoints(d) ==
    IF d.target = None THEN d ELSE CreatePltFrom(d, PltKeys(d))

\* DynLldb.create_dl_breakpoints: records for dlopen, dlclose and dlsym only.
RECURSIVE CreateDlFrom(_, _)
CreateDlFrom(d, keys) ==
    IF keys = <<>> THEN d
    ELSE LET key == Head(keys)
             tag == CASE key = "dlopen" -> DLOPEN_BP
                      [] key = "dlclose" -> DLCLOSE_BP
                      [] OTHER -> DLSYM_BP
             callback == CASE key = "dlopen" -> "on_dlopen_called"
                           [] key = "dlclose" -> "on_dlclose_called"
                           [] OTHER -> "on_dlsym_called"
         IN IF key \in {"dlopen", "dlclose", "dlsym"}
            THEN CreateDlFrom([d EXCEPT !.bps = Append(@,
                     NewBreakpoint(d.plt[key].addr, tag, callback, TRUE))], Tail(keys))
            ELSE CreateDlFrom(d, Tail(keys))

\* An installation that puts a record on every stub.
create_dl_breakpoints_every(d) ==
    IF d.target = None THEN d ELSE CreatePltFrom(d, PltKeys(d))

create_dl_breakpoints(d) ==
    IF d.target = None THEN d ELSE CreateDlFrom(d, PltKeys(d))

\* DynLldb.set_breakpoint: self.plt[func] raises KeyError for an unknown
\* name, entry.bp.SetEnabled raises AttributeError when entry.bp is None.
DynLldb_set_breakpoint(d, func, en) ==
    LET d1 == [d EXCEPT !.bp_func_name = func]
    IN IF d1.target = None THEN [d |-> d1, raised |-> FALSE]
       ELSE IF func \notin DOMAIN d1.plt THEN [d |-> d1, raised |-> TRUE]
       ELSE IF d1.plt[func].bp = 0 THEN [d |-> d1, raised |-> TRUE]
       ELSE [d |-> [d1 EXCEPT !.bps[d1.plt[func].bp].enabled = en],
             raised |-> FALSE]

\* DynLldb.get_func_info: the entry named func, or None.
get_func_info(d, func) == IF func \in DOMAIN d.plt THEN func ELSE None

---------------------------------------------------------------------------
(* What a resume or a single step of the inspected process can end in *)

EnabledAddrs(d) == {d.bps[i].addr : i \in {j \in DOMAIN d.bps : d.bps[j].enabled}}

\* Lazy binding done by the process while it runs: resuming from a stop at
\* the entry of a stub makes the call, which patches the slot of that stub
\* with the address of its routine.
Resolved(a) == 208 + (a - 160) \div 4

SlotOfStub(p) ==
    {a \in DOMAIN p.mem : p.pc % 16 = 0 /\ a - 160 = (p.pc \div 16) * 4}

MemNext(p) == [a \in DOMAIN p.mem |->
                 IF a \in SlotOfStub(p) THEN Resolved(a) ELSE p.mem[a]]

Exited == [st |-> "exited", pc |-> NoPc, fp1 |-> NoPc, eax |-> <<0>>, mem |-> <<>>,
           libs |-> FALSE]

\* The library is mapped by the call of dlopen and unmapped by the call of
\* dlclose.  A resume that stays inside one routine, or one during which
\* every call of dlopen and dlclose would stop the process, changes the
\* mapping only when it starts at the entry of dlopen or dlclose; any other
\* resume of a program that has these routines may pass through them.
LibsNext(d, p) ==
    LET syms == Range(SymbolsOf(d.target))
        open == StubAddr(d.target, "dlopen")
        close == StubAddr(d.target, "dlclose")
    IN IF "dlopen" \notin syms THEN {FALSE}
       ELSE IF p.fp1 \in EnabledAddrs(d) \/ {open, close} \subseteq EnabledAddrs(d)
       THEN {IF p.pc = open THEN TRUE ELSE IF p.pc = close THEN FALSE ELSE p.libs}
       ELSE BOOLEAN

\* A resume ends with the exit of the process or with a stop at an enabled
\* breakpoint.  A process stopped at the entry of a library routine whose
\* return address carries an enabled breakpoint reaches that return address
\* before any other breakpoint of the program.  At the entry of a routine
\* frame 1 is a call site of the program; at a return address it is the
\* caller of main, and the return-value register holds what the call
\* returned.
StopAddrs(d, p) ==
    IF p.fp1 \in EnabledAddrs(d) THEN {p.fp1} ELSE EnabledAddrs(d)

Outcomes(d, p) ==
    {Exited} \cup
    UNION {
      {[st |-> "stopped", pc |-> a, fp1 |-> f, eax |-> e, mem |-> MemNext(p),
        libs |-> l] :
          f \in (IF a \in RetAddrs THEN {StartAddr} ELSE RetAddrs),
          e \in (IF a \in RetAddrs THEN EaxValues ELSE {<<0>>}),
          l \in LibsNext(d, p)}
      : a \in StopAddrs(d, p)}

\* One instruction: the indirect jump of a stub goes where its slot points;
\* any other instruction goes to the next address.
StepOutcomes(d, p) ==
    LET slots == SlotOfStub(p)
    IN IF slots = {} THEN {[p EXCEPT !.pc = p.pc + 1]}
       ELSE {[p EXCEPT !.pc = p.mem[a]] : a \in slots}

\* continue_target without the test of the state of the process.
continue_target_any_state(c, o) ==
    IF c.d.process = None THEN [c EXCEPT !.ret = TupleNone]
    ELSE IF c.p.st \in {"stopped", "exited"}
    THEN LET d1 == [c.d EXCEPT !.saved_pc = get_pc_from_frame(c.d, o, 1)]
             d2 == invoke_breakpoint_callback(d1, o)
             d3 == read_got(d2, o)
         IN [c EXCEPT !.d = d3, !.p = o,
                      !.ret = get_current_breakpoint(d3, o),
                      !.log = Append(@, [op |-> "continue",
                                         from |-> get_pc_from_frame(c.d, c.p, 0),
                                         pc |-> get_pc_from_frame(d1, o, 0),
                                         fp1 |-> get_pc_from_frame(d1, o, 1),
                                         eax |-> o.eax,
                                         ret |-> get_current_breakpoint(d3, o),
                                         pre |-> Len(d1.bps),
                                         post |-> Len(d2.bps)])]
    ELSE [c EXCEPT !.ret = get_current_breakpoint(c.d, c.p)]

\* DynLldb.continue_target on the context c = [state, step, d, p, out, log,
\* ret]; o is what the resume ends in.  ret is the returned value: the pair
\* (None, None) when no process is attached, else the current record or None.
DynLldb_continue_target(c, o) ==
    IF c.d.process = None THEN [c EXCEPT !.ret = TupleNone]
    ELSE IF IsStopped(c.p)
    THEN LET d1 == [c.d EXCEPT !.saved_pc = get_pc_from_frame(c.d, o, 1)]
             d2 == invoke_breakpoint_callback(d1, o)
             d3 == read_got(d2, o)
         IN [c EXCEPT !.d = d3, !.p = o,
                      !.ret = get_current_breakpoint(d3, o),
                      !.log = Append(@, [op |-> "continue",
                                         from |-> get_pc_from_frame(c.d, c.p, 0),
                                         pc |-> get_pc_from_frame(d1, o, 0),
                                         fp1 |-> get_pc_from_frame(d1, o, 1),
                                         eax |-> o.eax,
                                         ret |-> get_current_breakpoint(d3, o),
                                         pre |-> Len(d1.bps),
                                         post |-> Len(d2.bps)])]
    ELSE [c EXCEPT !.ret = get_current_breakpoint(c.d, c.p)]

\* DynLldb.step_instruction: always returns a pair.
step_instruction(c, o) ==
    IF c.d.process = None THEN [c EXCEPT !.ret = TupleNone]
    ELSE IF IsStopped(c.p)
    THEN [c EXCEPT !.d = read_got(c.d, o), !.p = o, !.ret = TupleNone,
                   !.log = Append(@, [op |-> "step",
                                      from |-> get_pc_from_frame(c.d, c.p, 0),
                                      pc |-> get_pc_from_frame(c.d, o, 0),
                                      fp1 |-> get_pc_from_frame(c.d, o, 1),
                                      eax |-> o.eax,
                                      ret |-> TupleNone,
                                      pre |-> Len(c.d.bps),
                                      post |-> Len(c.d.bps)])]
    ELSE [c EXCEPT !.ret = TupleNone]

---------------------------------------------------------------------------
(* DynInspector *)

Emit(c, e) == [c EXCEPT !.out = Append(@, e)]

\* A handler's result: the context and whether an exception ended it.
Done(c) == [c |-> c, raised |-> FALSE]
Raised(c) == [c |-> c, raised |-> TRUE]

\* DynInspector.set_elf.  DynLldb.set_elf starts with clean, which drops the
\* references to the target and the process without stopping the process:
\* a process that was live stays live, out of reach of the session
\* (orphaned).
set_elf_body(c, path) ==
    LET c1 == [c EXCEPT !.d = DynLldb_set_elf(c.d, path), !.p = NoProc,
                        !.orphaned = @ \/ IsStopped(c.p)]
        rc == set_elf_rc(path)
        c2 == Emit(c1, IF rc # None THEN "elf_set" ELSE "elf_not_set")
    IN [c2 EXCEPT !.state = START_BP_SET]

\* The tail of continue_target_dynlink: get_got and the table event, then
\* get_sections and update_sections_table_data, which empties the sections
\* table and then raises TypeError on iterating None.
UpdateTables(c) ==
    LET c1 == Emit(c, "TableUpdated")
    IN IF get_sections(c1.d, c1.p).none THEN Raised(Emit(c1, "SectionsCleared"))
       ELSE Done(Emit(c1, "SectionsUpdated"))

\* DynLldb.run_target assigns the result of the launch to self.process: a
\* process that was attached and live is no longer referenced.
Replaced(d, p) == d.target # None /\ IsStopped(p)

\* DynInspector.run_target_dynlink
run_target_dynlink(c, ok) ==
    LET r == DynLldb_run_target(c.d, c.p, ok)
        c1 == [c EXCEPT !.d = r.d, !.p = r.p, !.orphaned = @ \/ Replaced(c.d, c.p)]
        c2 == [c1 EXCEPT !.d = create_plt_breakpoints(c1.d)]
        c3 == Emit(c2, IF c2.d.process = None THEN "launch_failed" ELSE "started")
        c4 == Emit(c3, "AddSelectableFunctions")
        t == UpdateTables(c4)
    IN IF r.raised THEN Raised(c1)
       ELSE IF t.raised THEN t
       ELSE Done(Emit(t.c, "RenderFrame0"))

\* DynInspector.run_target_dynload: get_modules raises when there is no
\* target (read_modules returns None).
run_target_dynload(c, ok) ==
    LET r == DynLldb_run_target(c.d, c.p, ok)
        c1 == [c EXCEPT !.d = r.d, !.p = r.p, !.orphaned = @ \/ Replaced(c.d, c.p)]
        c2 == [c1 EXCEPT !.d = create_dl_breakpoints(c1.d)]
        c3 == Emit(c2, "RenderFrame0")
    IN IF r.raised THEN Raised(c1)
       ELSE IF get_modules(c3.d, c3.p).raised THEN Raised(c3)
       ELSE Done(Emit(c3, "ModulesUpdated"))

\* DynInspector.run_target.  The process.Stop() of stop_target is taken to
\* end the process it is called on.
run_target_body(c, m, ok) ==
    LET c1 == Emit(c, "ClearDisplay")
        c2 == IF c1.state # START_BP_SET
              THEN [c1 EXCEPT !.d = stop_target(c1.d),
                              !.p = IF c1.d.target = None THEN c1.p ELSE NoProc]
              ELSE c1
        r == IF m = DYN_LINK THEN run_target_dynlink(c2, ok)
             ELSE run_target_dynload(c2, ok)
    IN IF r.raised THEN r.c
       ELSE [r.c EXCEPT !.state = ON_BP_SHOW_PREV_FRAME]

\* "code, _ = self.debugger.continue_target()": the unpacking succeeds for a
\* pair and raises TypeError for a Breakpoint object and for None.
UnpacksAsPair_always(ret) == TRUE

UnpacksAsPair(ret) == ret.kind = "tuple"

\* DynInspector.continue_target_dynlink.  o: what a resume ends in; os: what a
\* single step ends in.  DynLldb.continue_target returns a pair only when no
\* process is attached; step_instruction always returns one.
continue_target_dynlink(c, bpf, o, os) ==
    LET func_info == get_func_info(c.d, bpf)
        branch ==
          IF c.state = ON_BP_SHOW_PREV_FRAME THEN
            LET c1 == DynLldb_continue_target(c, o)
                c2 == Emit(c1, "RenderFrame1")
            IN IF ~UnpacksAsPair(c1.ret) THEN Raised(c1)
               ELSE IF get_process_state(c2.d, c2.p) = STOPPED
               THEN Done(Emit(Emit([c2 EXCEPT !.state = ON_BP_SHOW_CURR_FRAME],
                                   "stopped_on_breakpoint"), "redirected_to_plt"))
               ELSE Done([c2 EXCEPT !.state = EXIT])
          ELSE IF c.state = ON_BP_SHOW_CURR_FRAME THEN
            LET c1 == Emit(c, "RenderFrame0")
            IN IF func_info = None THEN Raised(c1)
               ELSE Done([Emit(Emit(c1, "got_entry"), "got_jump")
                            EXCEPT !.state = STEP_INST_PLT])
          ELSE IF c.state = STEP_INST_PLT THEN
            LET prev_pc == get_pc_from_frame(c.d, c.p, 0)
                c1 == step_instruction(c, os)
                current_pc == get_pc_from_frame(c1.d, c1.p, 0)
                c2 == Emit(c1, "RenderFrame0")
            IN IF prev_pc = NoPc THEN Raised(c2)
               ELSE IF prev_pc + 6 = current_pc
               THEN LET c3 == [c2 EXCEPT !.step = 4, !.state = INVOKE_LOADER]
                    IN IF func_info = None THEN Raised(c3)
                       ELSE Done(Emit(c3, "first_call"))
               ELSE LET c3 == [c2 EXCEPT !.state = CALL_FUNC]
                    IN IF func_info = None THEN Raised(c3)
                       ELSE Done(Emit(Emit(c3, "not_first_call"), "in_routine"))
          ELSE IF c.state = INVOKE_LOADER THEN
            LET c1 == step_instruction(c, os)
                c2 == Emit(c1, "RenderFrame0")
                c3 == IF c2.step = 4 THEN Emit(c2, "plt_header") ELSE c2
                c4 == IF c3.step = 1 THEN Emit(c3, "linker_invoked") ELSE c3
                c5 == [c4 EXCEPT !.step = @ - 1]
            IN Done(IF c5.step = 0 THEN [c5 EXCEPT !.state = RET] ELSE c5)
          ELSE IF c.state = RET THEN
            LET c1 == DynLldb_continue_target(c, o)
            IN IF ~UnpacksAsPair(c1.ret) THEN Raised(c1)
               ELSE Done([Emit(Emit(c1, "RenderFrame0"), "return_to_caller")
                            EXCEPT !.state = ON_BP_SHOW_PREV_FRAME])
          ELSE IF c.state = CALL_FUNC THEN
            LET c1 == DynLldb_continue_target(c, o)
            IN IF ~UnpacksAsPair(c1.ret) THEN Raised(c1)
               ELSE Done(Emit([Emit(c1, "RenderFrame0")
                                 EXCEPT !.state = ON_BP_SHOW_PREV_FRAME],
                              "return_to_caller"))
          ELSE Done(Emit(Emit(c, "finished"), "continue_disabled"))
    IN IF branch.raised THEN branch.c ELSE UpdateTables(branch.c).c

IsEntryCall(tag) == tag \in {DLOPEN_BP, DLCLOSE_BP, DLSYM_BP}

\* DynInspector.continue_target_dynload.  o1, o2: what the first and the
\* second resume end in.  breakpoint.tag raises AttributeError when the
\* value returned is the pair (None, None) or None.
continue_target_dynload(c, o1, o2) ==
    LET branch ==
          IF c.state = ON_BP_SHOW_PREV_FRAME THEN
            LET c1 == DynLldb_continue_target(c, o1)
                b1 == c1.ret
                c2 == Emit(c1, "RenderFrame1")
                c3 == IF b1.kind = "bp" /\ IsEntryCall(b1.tag)
                      THEN DynLldb_continue_target(c2, o2) ELSE c2
                b3 == c3.ret
            IN IF get_process_state(c1.d, c1.p) = EXITED
               THEN [c |-> Emit(Emit(c1, "finished"), "continue_disabled"),
                     raised |-> FALSE, returned |-> TRUE]
               ELSE IF b1.kind # "bp"
               THEN [c |-> c1, raised |-> TRUE, returned |-> FALSE]
               ELSE IF b1.tag = RET_FROM_DYN_CALL
               THEN [c |-> Emit(c1, "RenderFrame0"), raised |-> FALSE,
                     returned |-> TRUE]
               ELSE IF b3.kind # "bp"
               THEN [c |-> c3, raised |-> TRUE, returned |-> FALSE]
               ELSE IF b3.tag \in {DYN_CALL_FUNC_BP, RET_FROM_DLOPEN,
                                   RET_FROM_DLSYM, RET_FROM_DLCLOSE}
               THEN [c |-> [c3 EXCEPT !.state = ON_BP_SHOW_CURR_FRAME],
                     raised |-> FALSE, returned |-> FALSE]
               ELSE [c |-> c3, raised |-> FALSE, returned |-> FALSE]
          ELSE IF c.state = ON_BP_SHOW_CURR_FRAME THEN
            [c |-> [Emit(c, "RenderFrame0") EXCEPT !.state = ON_BP_SHOW_PREV_FRAME],
             raised |-> FALSE, returned |-> FALSE]
          ELSE [c |-> c, raised |-> FALSE, returned |-> FALSE]
    IN IF get_modules(c.d, c.p).raised THEN c
       ELSE IF branch.raised \/ branch.returned THEN branch.c
       ELSE IF get_modules(branch.c.d, branch.c.p).raised THEN branch.c
       ELSE Emit(branch.c, "ModulesUpdated")

\* set_breakpoint without the disabling of the previous selection.
set_breakpoint_keeps_previous(c, bpf, func) ==
    LET r2 == DynLldb_set_breakpoint(c.d, func, TRUE)
    IN IF func = "" THEN [c |-> c, bp_func |-> bpf]
       ELSE IF r2.raised THEN [c |-> [c EXCEPT !.d = r2.d], bp_func |-> func]
       ELSE [c |-> Emit([c EXCEPT !.d = r2.d], "breakpoint_set"), bp_func |-> func]

\* DynInspector.set_breakpoint: yields the new selection and the context.
set_breakpoint_body(c, bpf, func) ==
    LET r1 == IF bpf # None THEN DynLldb_set_breakpoint(c.d, bpf, FALSE)
              ELSE [d |-> c.d, raised |-> FALSE]
        r2 == DynLldb_set_breakpoint(r1.d, func, TRUE)
    IN IF func = "" THEN [c |-> c, bp_func |-> bpf]
       ELSE IF r1.raised THEN [c |-> [c EXCEPT !.d = r1.d], bp_func |-> bpf]
       ELSE IF r2.raised THEN [c |-> [c EXCEPT !.d = r2.d], bp_func |-> func]
       ELSE [c |-> Emit([c EXCEPT !.d = r2.d], "breakpoint_set"), bp_func |-> func]

---------------------------------------------------------------------------
(* The table editor of the interface *)

\* The signals DynInspector declares for the interface to emit.
WorkerSignals == {"set_elf_sig", "console_output_sig", "run_target_sig",
                  "continue_target_sig", "set_breakpoint_sig", "set_app_mode_sig"}

\* The texts entered in the editor: a hexadecimal number with the 0x
\* prefix, one without it, and a prefixed text that is not a number.
TextInputs == {"0xd1", "d1", "0xg1"}

\* text.lower().startswith('0x')
startswith_0x(text) == text \in {"0xd1", "0xg1"}

\* The characters of the text after the prefix, as digits.
DigitsOf(text) == IF text = "0xg1" THEN <<Paren, 1>> ELSE <<13, 1>>

\* DynLldb.write_word_to_address: writes the word at the address and
\* refreshes the table; nothing is done without a process or when the
\* write fails.  A word has the width of an address.
write_word_to_address(d, p, addr, word) ==
    IF d.process = None THEN [d |-> d, p |-> p]
    ELSE IF ~(IsStopped(p) /\ addr \in DOMAIN p.mem) THEN [d |-> d, p |-> p]
    ELSE LET p1 == [p EXCEPT !.mem[addr] = word % (InvalidAddr + 1)]
         IN [d |-> read_got(d, p1), p |-> p1]

\* An editor that sends whatever was entered to the engine.
click_me_unchecked(c, text, key) ==
    LET w == write_word_to_address(c.d, c.p, ParseHex(c.d.plt[key].got_addr),
                                   ParseHex(DigitsOf(text)))
    IN [c EXCEPT !.d = w.d, !.p = w.p]

\* MainWindow.click_me on the row of entry key, the dialog accepted with
\* text.  int(text, 16) raises ValueError for a text that is not a number,
\* and emitting a signal the worker does not declare raises AttributeError;
\* the bare except turns both into the message box.
click_me_body(c, text, key) ==
    LET reject == Emit(c, "InvalidAddress")
        w == write_word_to_address(c.d, c.p, ParseHex(c.d.plt[key].got_addr),
                                   ParseHex(DigitsOf(text)))
    IN IF ~startswith_0x(text) THEN reject
       ELSE IF ~IsHex(DigitsOf(text)) THEN reject
       ELSE IF "write_hex_value_sig" \notin WorkerSignals THEN reject
       ELSE [c EXCEPT !.d = w.d, !.p = w.p]

---------------------------------------------------------------------------
(* The state machine *)

Ctx == [state |-> state, step |-> step, d |-> debugger, p |-> proc,
        out |-> <<>>, log |-> <<>>, ret |-> NoBp, orphaned |-> orphaned]

Commit(c) ==
    /\ state' = c.state
    /\ step' = c.step
    /\ debugger' = c.d
    /\ proc' = c.p
    /\ out' = c.out
    /\ log' = c.log
    /\ orphaned' = c.orphaned

\* The stub records that are enabled, by the index of the record.
EnabledStubs(d) == {i \in DOMAIN d.bps : d.bps[i].tag = PLT_BP /\ d.bps[i].enabled}

\* The exit of the process has been reported.  In dynamic-linking mode the
\* phase records it; in dynamic-loading mode there is no such phase, and the
\* exit is found again at every Continue from the state of the process.
Finished ==
    IF mode = DYN_LINK THEN state = EXIT
    ELSE proc.st = "exited" /\ "finished" \in Range(out)

\* History: the command just executed, its input, and the phase and the
\* enabled stub breakpoints it started from.
Command(op, arg) ==
    cmd' = [op |-> op, arg |-> arg, state |-> state, step |-> step,
            sel |-> {debugger.bps[i].addr : i \in EnabledStubs(debugger)},
            nbps |-> Len(debugger.bps), finished |-> Finished]

\* No command is being executed by the engine's thread.
Idle == [op |-> "None", arg |-> "", n |-> 0]

Init ==
    /\ cmd = [op |-> "init", arg |-> "", state |-> NONE, step |-> STEPS, sel |-> {},
             nbps |-> 0, finished |-> FALSE]
    /\ mode = DYN_LINK
    /\ state = NONE
    /\ step = STEPS
    /\ elf = None
    /\ bp_func = None
    /\ debugger = clean([bps |-> <<>>])
    /\ proc = NoProc
    /\ out = <<>>
    /\ log = <<>>
    /\ orphaned = FALSE
    /\ failure \in LaunchFailures
    /\ queue = <<>>
    /\ running = Idle
    /\ sent = 0
    /\ served = 0

\* SetTarget(path)
set_elf(path) ==
    /\ elf' = path
    /\ Commit(set_elf_body(Ctx, path))
    /\ Command("set_elf", path)
    /\ UNCHANGED <<mode, bp_func, failure>>

\* SetMode(m): the mode is switched and the current file, if any, is set again.
set_app_mode(m) ==
    /\ mode' = m
    /\ Command("set_app_mode", IF m = DYN_LINK THEN "DYN_LINK" ELSE "DYN_LOAD")
    /\ Commit(IF elf # None THEN set_elf_body(Emit(Ctx, "ClearDisplay"), elf)
              ELSE Emit(Ctx, "ClearDisplay"))
    /\ UNCHANGED <<elf, bp_func, failure>>

\* Run()
run_target(ok) ==
    /\ Commit(run_target_body(Ctx, mode, ok))
    /\ Command("run_target", ok)
    /\ UNCHANGED <<mode, elf, bp_func, failure>>

\* What the resumes and the single step of one Continue can end in.  A
\* branch that does not resume (or step) the process leaves it as it is.
ResumeOutcomes(c, resumes) == IF resumes THEN Outcomes(c.d, c.p) ELSE {c.p}

SecondResume(c, o1) ==
    LET c1 == DynLldb_continue_target(c, o1)
    IN ResumeOutcomes(c1, c.state = ON_BP_SHOW_PREV_FRAME /\ c.d.target # None
                          /\ c1.ret.kind = "bp" /\ IsEntryCall(c1.ret.tag))

\* Continue()
continue_target ==
    /\ Len(debugger.bps) < MaxBps
    /\ Command("continue_target", "")
    /\ IF mode = DYN_LINK
       THEN \E o1 \in ResumeOutcomes(Ctx, state \in {ON_BP_SHOW_PREV_FRAME, RET, CALL_FUNC}) :
            \E os \in (IF state \in {STEP_INST_PLT, INVOKE_LOADER}
                       THEN StepOutcomes(debugger, proc) ELSE {proc}) :
              Commit(continue_target_dynlink(Ctx, bp_func, o1, os))
       ELSE \E o1 \in ResumeOutcomes(Ctx, state = ON_BP_SHOW_PREV_FRAME
                                          /\ debugger.target # None) :
            \E o2 \in SecondResume(Ctx, o1) :
              Commit(continue_target_dynload(Ctx, o1, o2))
    /\ UNCHANGED <<mode, elf, bp_func, failure>>

\* SetBreakpointFunction(func).  The function selector that sends it exists
\* in the dynamic-linking interface only.
set_breakpoint(func) ==
    LET r == set_breakpoint_body(Ctx, bp_func, func)
    IN /\ mode = DYN_LINK
       /\ bp_func' = r.bp_func
       /\ Commit(r.c)
       /\ Command("set_breakpoint", func)
       /\ UNCHANGED <<mode, elf, failure>>

\* WriteTableValue: the edit button of a row of the table, which the
\* dynamic-linking interface shows.
click_me(text) ==
    /\ mode = DYN_LINK
    /\ \E key \in DOMAIN debugger.plt : Commit(click_me_body(Ctx, text, key))
    /\ Command("click_me", text)
    /\ UNCHANGED <<mode, elf, bp_func, failure>>
    /\ UNCHANGED delivery

\* The commands, each sent and executed before the next one is sent.
SetTarget(path) == set_elf(path) /\ UNCHANGED delivery
SetMode(m) == set_app_mode(m) /\ UNCHANGED delivery
Run(ok) == run_target(ok) /\ UNCHANGED delivery
Continue == continue_target /\ UNCHANGED delivery
SetBreakpointFunction(func) == set_breakpoint(func) /\ UNCHANGED delivery

Next ==
    \/ \E path \in Files : SetTarget(path)
    \/ \E m \in {DYN_LINK, DYN_LOAD} : SetMode(m)
    \/ \E ok \in LaunchOutcomes(debugger, failure) : Run(ok)
    \/ Continue
    \/ \E func \in Selectable : SetBreakpointFunction(func)
    \/ \E text \in TextInputs : click_me(text)

Spec == Init /\ [][Next]_vars

---------------------------------------------------------------------------
(* The two threads *)

\* MainWindow.run moves the engine to a thread of its own, so a signal the
\* presentation thread emits is queued for the engine's thread, whose event
\* loop runs one slot at a time.  A slot runs to its end before the loop
\* takes the next event: the backend is synchronous (SetAsync(False)).

\* The signals the presentation thread emits, with their arguments.
Signals ==
    [op : {"set_elf"}, arg : Files]
    \cup [op : {"set_app_mode"}, arg : {"DYN_LINK", "DYN_LOAD"}]
    \cup [op : {"run_target", "continue_target"}, arg : {""}]
    \cup [op : {"set_breakpoint"}, arg : Selectable]

Pending == {queue[i].op : i \in DOMAIN queue} \cup {running.op}

\* The presentation thread emits a signal: the event is appended to the
\* queue of the engine's thread and nothing of the engine is touched.
emit(sig) ==
    /\ sent < MaxSent
    /\ sig.op = "set_breakpoint" => mode = DYN_LINK /\ "set_app_mode" \notin Pending
    /\ sent' = sent + 1
    /\ queue' = Append(queue, [op |-> sig.op, arg |-> sig.arg, n |-> sent + 1])
    /\ UNCHANGED <<running, served>>
    /\ UNCHANGED engine

\* The event the loop of the engine's thread takes next: the oldest one.
Deliver_last(q) == Len(q)

Deliver(q) == 1

Without(q, i) == SubSeq(q, 1, i - 1) \o SubSeq(q, i + 1, Len(q))

\* The event loop takes an event when no slot is running.
Begin ==
    /\ running = Idle
    /\ queue # <<>>
    /\ running' = queue[Deliver(queue)]
    /\ queue' = Without(queue, Deliver(queue))
    /\ UNCHANGED <<sent, served>>
    /\ UNCHANGED engine

\* The slot of the event taken runs to its end.
Finish ==
    /\ running # Idle
    /\ \/ running.op = "set_elf" /\ set_elf(running.arg)
       \/ running.op = "set_app_mode"
          /\ set_app_mode(IF running.arg = "DYN_LINK" THEN DYN_LINK ELSE DYN_LOAD)
       \/ running.op = "run_target"
          /\ \E ok \in LaunchOutcomes(debugger, failure) : run_target(ok)
       \/ running.op = "continue_target" /\ continue_target
       \/ running.op = "set_breakpoint" /\ set_breakpoint(running.arg)
    /\ running' = Idle
    /\ served' = running.n
    /\ UNCHANGED <<queue, sent>>

NextThreads ==
    \/ \E sig \in Signals : emit(sig)
    \/ Begin
    \/ Finish

SpecThreads == Init /\ [][NextThreads]_vars

---------------------------------------------------------------------------
(* Properties *)

Msgs == Range(out)

\* The tags of the records that were in the registry, at the stop address,
\* when the resume recorded in e ended.
HitTags(e) == {debugger.bps[i].tag : i \in {j \in 1..e.pre : debugger.bps[j].addr = e.pc}}
HitCount(e, tag) ==
    Cardinality({j \in 1..e.pre : debugger.bps[j].addr = e.pc /\ debugger.bps[j].tag = tag})
\* The number of records with the tag that the callbacks appended during it.
NewCount(e, tag) ==
    Cardinality({j \in (e.pre + 1)..e.post : debugger.bps[j].tag = tag})

LinkContinueFrom(ph) ==
    mode = DYN_LINK /\ cmd.op = "continue_target" /\ cmd.state = ph

SelectedStubAddrs ==
    IF bp_func \in DOMAIN debugger.plt THEN {debugger.plt[bp_func].addr} ELSE {}

\* C1: in Link-Inspection mode at most one stub breakpoint (tag PLT_BP) is
\* enabled, and after SetBreakpointFunction(B) issued while a stub breakpoint
\* was enabled, exactly one stub breakpoint is enabled and it is B's.
C1_OneStubEnabled ==
    mode = DYN_LINK =>
      /\ Cardinality(EnabledStubs(debugger)) <= 1
      /\ (cmd.op = "set_breakpoint" /\ cmd.sel # {} /\ cmd.arg \in DOMAIN debugger.plt)
           => /\ Cardinality(EnabledStubs(debugger)) = 1
              /\ \A i \in EnabledStubs(debugger) :
                   debugger.bps[i].addr = debugger.plt[cmd.arg].addr

C1_Witness ==
    /\ mode = DYN_LINK
    /\ cmd.op = "set_breakpoint"
    /\ cmd.arg \in DOMAIN debugger.plt
    /\ cmd.sel # {}
    /\ debugger.plt[cmd.arg].addr \notin cmd.sel
    /\ {debugger.bps[i].addr : i \in EnabledStubs(debugger)} = {debugger.plt[cmd.arg].addr}

\* C2: in Link-Inspection mode a Continue from ON_BP_SHOW_PREV_FRAME that
\* stops on the selected stub moves to ON_BP_SHOW_CURR_FRAME; the next
\* Continue moves to STEP_INST_PLT; the one after it single-steps and enters
\* INVOKE_LOADER with step = 4 exactly when the pc advanced by 6, and
\* CALL_FUNC otherwise.
C2_LinkSequence ==
    /\ (LinkContinueFrom(ON_BP_SHOW_PREV_FRAME) /\ log # <<>> /\ IsStopped(proc)
          /\ proc.pc \in SelectedStubAddrs)
         => state = ON_BP_SHOW_CURR_FRAME
    /\ (LinkContinueFrom(ON_BP_SHOW_CURR_FRAME) /\ SelectedStubAddrs # {})
         => state = STEP_INST_PLT
    /\ (LinkContinueFrom(STEP_INST_PLT) /\ log # <<>>)
         => IF log[1].pc = log[1].from + 6
            THEN state = INVOKE_LOADER /\ step = 4
            ELSE state = CALL_FUNC

\* C6: in Link-Inspection mode, when the process exits during the Continue
\* issued in ON_BP_SHOW_PREV_FRAME, that Continue moves the phase to EXIT and
\* emits the 'execution finished' message.
C6_ExitReported ==
    (LinkContinueFrom(ON_BP_SHOW_PREV_FRAME) /\ log # <<>> /\ proc.st = "exited")
      => state = EXIT /\ "finished" \in Msgs

ReturnTagOf(tag) ==
    CASE tag = DLOPEN_BP -> RET_FROM_DLOPEN
      [] tag = DLSYM_BP -> RET_FROM_DLSYM
      [] tag = DLCLOSE_BP -> RET_FROM_DLCLOSE

\* C8: in Load-Inspection mode every stop on a DLOPEN_BP / DLSYM_BP /
\* DLCLOSE_BP breakpoint adds exactly one record, tagged RET_FROM_DLOPEN /
\* RET_FROM_DLSYM / RET_FROM_DLCLOSE, at the pc of frame 1.
C8_ReturnRecordPerEntryCall ==
    mode = DYN_LOAD =>
      \A k \in DOMAIN log : \A tag \in {DLOPEN_BP, DLSYM_BP, DLCLOSE_BP} :
        tag \in HitTags(log[k]) =>
          /\ log[k].post = log[k].pre + 1
          /\ debugger.bps[log[k].post].tag = ReturnTagOf(tag)
          /\ debugger.bps[log[k].post].addr = log[k].fp1

C8_Witness ==
    /\ mode = DYN_LOAD
    /\ \E k \in DOMAIN log :
         /\ DLSYM_BP \in HitTags(log[k])
         /\ log[k].post = log[k].pre + 1
         /\ debugger.bps[log[k].post].tag = RET_FROM_DLSYM
         /\ debugger.bps[log[k].post].addr = log[k].fp1

\* C9: in Load-Inspection mode every stop on a RET_FROM_DLSYM breakpoint
\* installs exactly one new record, tagged DYN_CALL_FUNC_BP, at the address
\* parsed from the return-value register.
C9_OneTargetPerLookupReturn ==
    mode = DYN_LOAD =>
      \A k \in DOMAIN log :
        RET_FROM_DLSYM \in HitTags(log[k]) =>
          /\ log[k].post = log[k].pre + 1
          /\ debugger.bps[log[k].post].tag = DYN_CALL_FUNC_BP
          /\ debugger.bps[log[k].post].addr = ParseHex(log[k].eax)

ReturnTags == {RET_FROM_DLOPEN, RET_FROM_DLCLOSE, RET_FROM_DYN_CALL, RET_FROM_PLT_BP}

\* C10: every DYN_CALL_FUNC_BP record hit appends one RET_FROM_DYN_CALL
\* record and every PLT_BP record hit appends one RET_FROM_PLT_BP record, at
\* the pc of frame 1; a stop that hits only RET_FROM_DLOPEN, RET_FROM_DLCLOSE,
\* RET_FROM_DYN_CALL or RET_FROM_PLT_BP records adds no record.
C10_ReturnRecordPerCall ==
    \A k \in DOMAIN log :
      LET e == log[k]
      IN /\ NewCount(e, RET_FROM_DYN_CALL) = HitCount(e, DYN_CALL_FUNC_BP)
         /\ NewCount(e, RET_FROM_PLT_BP) = HitCount(e, PLT_BP)
         /\ \A j \in (e.pre + 1)..e.post :
              debugger.bps[j].tag \in {RET_FROM_DYN_CALL, RET_FROM_PLT_BP}
                => debugger.bps[j].addr = e.fp1
         /\ HitTags(e) \subseteq ReturnTags => e.post = e.pre

C10_Witness ==
    \E k \in DOMAIN log :
      /\ HitCount(log[k], DYN_CALL_FUNC_BP) = 1
      /\ log[k].post = log[k].pre + 1
      /\ debugger.bps[log[k].post].tag = RET_FROM_DYN_CALL
      /\ debugger.bps[log[k].post].addr = log[k].fp1

\* The tag of the record that the callback of a record with the given tag
\* installs, or -1 when that callback installs nothing.
InstalledTagOf(tag) ==
    CASE tag = PLT_BP -> RET_FROM_PLT_BP
      [] tag = DLOPEN_BP -> RET_FROM_DLOPEN
      [] tag = DLSYM_BP -> RET_FROM_DLSYM
      [] tag = DLCLOSE_BP -> RET_FROM_DLCLOSE
      [] tag = RET_FROM_DLSYM -> DYN_CALL_FUNC_BP
      [] tag = DYN_CALL_FUNC_BP -> RET_FROM_DYN_CALL
      [] OTHER -> -1

\* C11: whenever a resume that ended in a stop returned a record to the phase
\* state machine, the record is one at the stop address and the callbacks of
\* the records matching the stop address have already run: the record that
\* the returned record's callback installs is in the registry.
C11_CallbacksRunBeforeTagIsConsumed ==
    \A k \in DOMAIN log :
      (log[k].op = "continue" /\ log[k].ret.kind = "bp") =>
        /\ log[k].ret.addr = log[k].pc
        /\ log[k].ret.tag \in HitTags(log[k])
        /\ InstalledTagOf(log[k].ret.tag) # -1 =>
             \E j \in (log[k].pre + 1)..log[k].post :
               debugger.bps[j].tag = InstalledTagOf(log[k].ret.tag)

\* A Continue of Load-Inspection mode whose first resume stopped in dlsym,
\* whose callback installed the RET_FROM_DLSYM record that the second resume
\* stopped on, and the state machine consumed that tag.
C11_Witness ==
    /\ mode = DYN_LOAD
    /\ cmd.op = "continue_target"
    /\ Len(log) = 2
    /\ log[1].ret.tag = DLSYM_BP
    /\ log[2].pc = log[1].fp1
    /\ log[2].ret.tag = RET_FROM_DLSYM
    /\ log[2].pre = log[1].post
    /\ debugger.bps[log[1].post].tag = RET_FROM_DLSYM
    /\ debugger.bps[log[2].post].tag = DYN_CALL_FUNC_BP
    /\ state = ON_BP_SHOW_CURR_FRAME

\* The Run just executed launched the process and ran to its end (its last
\* statement before the phase assignment has emitted its event).
RunSucceeded ==
    /\ cmd.op = "run_target"
    /\ cmd.arg = "launched"
    /\ debugger.process # None
    /\ state = ON_BP_SHOW_PREV_FRAME
    /\ out # <<>>
    /\ out[Len(out)] = IF mode = DYN_LINK THEN "RenderFrame0" ELSE "ModulesUpdated"

\* The indices of the records at an address.
RecordsAt(a) == {i \in DOMAIN debugger.bps : debugger.bps[i].addr = a}

\* C12: get_current_breakpoint returns a record whose address equals the
\* current pc, and nothing when no record has that address; right after the
\* stub breakpoints are installed, the lookup at the address of the stub of f
\* returns the PLT_BP record installed for f, the only record at that address.
C12_ResolveByAddress ==
    LET pc == get_pc_from_frame(debugger, proc, 0)
        r == get_current_breakpoint(debugger, proc)
    IN /\ r.kind = "bp" =>
            /\ r.addr = pc
            /\ \E i \in RecordsAt(pc) : debugger.bps[i].tag = r.tag
       /\ r.kind # "bp" => RecordsAt(pc) = {}
       /\ (mode = DYN_LINK /\ RunSucceeded) =>
            \A f \in DOMAIN debugger.plt :
              LET rf == get_current_breakpoint(debugger,
                            [proc EXCEPT !.pc = debugger.plt[f].addr])
              IN /\ rf.kind = "bp"
                 /\ rf.tag = PLT_BP
                 /\ rf.addr = debugger.plt[f].addr
                 /\ RecordsAt(debugger.plt[f].addr) = {debugger.plt[f].bp}

\* Right after the stub breakpoints of b.out are installed: three stubs at
\* distinct addresses, and the lookup at the second one finds its record.
C12_Witness ==
    /\ mode = DYN_LINK
    /\ RunSucceeded
    /\ DOMAIN debugger.plt = {"printf", "puts", "dlsym"}
    /\ debugger.plt["printf"].addr # debugger.plt["puts"].addr
    /\ Len(debugger.bps) = 3
    /\ get_current_breakpoint(debugger,
          [proc EXCEPT !.pc = debugger.plt["puts"].addr]).addr = debugger.plt["puts"].addr

\* C13: a Continue issued when no process is attached leaves the phase, the
\* registry and the table as they were and reports 'no target running', and
\* nothing else, on the console.
C13_ContinueWithoutProcess ==
    (cmd.op = "continue_target" /\ debugger.process = None) =>
      /\ state = cmd.state
      /\ debugger.bps = <<>>
      /\ debugger.plt = EmptyPlt
      /\ Msgs = {"no_target_running"}

\* C14: SetTarget(path), issued in any phase, leaves an empty registry, an
\* empty stub table, an empty static-module snapshot and no attached process,
\* a fresh target for the path, and the phase START_BP_SET.
C14_SetTargetClears ==
    cmd.op = "set_elf" =>
      /\ debugger.bps = <<>>
      /\ debugger.plt = EmptyPlt
      /\ debugger.static_modules = <<>>
      /\ debugger.process = None
      /\ proc = NoProc
      /\ debugger.target = cmd.arg
      /\ debugger.elf = cmd.arg
      /\ elf = cmd.arg
      /\ state = START_BP_SET

\* SetTarget issued in the middle of a Load-Inspection session whose registry
\* held records synthesized by callbacks.
C14_Witness ==
    /\ cmd.op = "set_elf"
    /\ cmd.state = ON_BP_SHOW_CURR_FRAME
    /\ cmd.nbps > 3
    /\ debugger.bps = <<>>
    /\ state = START_BP_SET

\* The session right after construction, and the outcome of SetTarget(img)
\* followed by a first Run with a successful launch in mode m.
FreshCtx == [state |-> NONE, step |-> STEPS, d |-> clean([bps |-> <<>>]),
             p |-> NoProc, out |-> <<>>, log |-> <<>>, ret |-> NoBp,
             orphaned |-> FALSE]
FirstRun(img, m) == run_target_body(set_elf_body(FreshCtx, img), m, "launched")

\* The command just executed was a Run, with a successful launch, issued
\* while a session was running (the phase was past START_BP_SET).
Restarted ==
    /\ cmd.op = "run_target"
    /\ cmd.arg = "launched"
    /\ cmd.state \notin {NONE, START_BP_SET}

LibraryCalls == {"dlopen", "dlsym", "dlclose"}

LibraryCallTag(key) ==
    CASE key = "dlopen" -> DLOPEN_BP
      [] key = "dlsym" -> DLSYM_BP
      [] key = "dlclose" -> DLCLOSE_BP

\* C16: after a successful Run the registry holds, in Link-Inspection mode,
\* exactly one PLT_BP record per table entry, at the entry's stub address and
\* disabled, and in Load-Inspection mode exactly one record for each of the
\* stubs dlopen, dlsym and dlclose that the scan found, tagged DLOPEN_BP,
\* DLSYM_BP and DLCLOSE_BP; there is no other record.
C16_InitialRegistry ==
    RunSucceeded =>
      IF mode = DYN_LINK
      THEN /\ Len(debugger.bps) = Cardinality(DOMAIN debugger.plt)
           /\ \A f \in DOMAIN debugger.plt :
                Cardinality(RecordsAt(debugger.plt[f].addr)) = 1
           /\ \A i \in DOMAIN debugger.bps :
                /\ debugger.bps[i].tag = PLT_BP
                /\ ~debugger.bps[i].enabled
                /\ \E f \in DOMAIN debugger.plt : debugger.bps[i].addr = debugger.plt[f].addr
      ELSE LET found == LibraryCalls \cap DOMAIN debugger.plt
           IN /\ Len(debugger.bps) = Cardinality(found)
              /\ \A key \in found :
                   /\ Cardinality(RecordsAt(debugger.plt[key].addr)) = 1
                   /\ \A i \in RecordsAt(debugger.plt[key].addr) :
                        debugger.bps[i].tag = LibraryCallTag(key)
              /\ \A i \in DOMAIN debugger.bps :
                   \E key \in found : debugger.bps[i].addr = debugger.plt[key].addr

\* A successful Run of a.out in Load-Inspection mode: the scan found four
\* stubs, three of them library calls, and the registry holds three records.
C16_Witness ==
    /\ mode = DYN_LOAD
    /\ RunSucceeded
    /\ DOMAIN debugger.plt = {"puts", "dlopen", "dlsym", "dlclose"}
    /\ Len(debugger.bps) = 3
    /\ RecordsAt(debugger.plt["puts"].addr) = {}

\* The table entries of q are those of d, up to the value read from the slot.
SameEntries(d, q) ==
    /\ DOMAIN q.plt = DOMAIN d.plt
    /\ \A n \in DOMAIN d.plt :
         /\ q.plt[n].name = d.plt[n].name
         /\ q.plt[n].addr = d.plt[n].addr
         /\ q.plt[n].got_addr = d.plt[n].got_addr
         /\ q.plt[n].bp = d.plt[n].bp

\* C17: Continue and SetBreakpointFunction add no table entry, delete none,
\* and change no entry's name, stub address or slot address; a refresh
\* changes at most the value of each entry.
C17_EntriesImmutable ==
    [][(cmd'.op \in {"continue_target", "set_breakpoint"})
         => /\ SameEntries(debugger, debugger')
            /\ SameEntries(debugger', read_got(debugger', proc'))]_vars

\* A Continue after which the value of an entry differs from the one scanned
\* at launch: the refresh re-read a slot that the loader had patched.
C17_Witness ==
    /\ cmd.op = "continue_target"
    /\ log # <<>>
    /\ IsStopped(proc)
    /\ \E n \in DOMAIN debugger.plt :
         /\ debugger.plt[n].got_value # HexStr(InitMem(elf)[SlotAddr(elf, n)])
         /\ debugger.plt[n].got_addr = HexStr(SlotAddr(elf, n))
         /\ debugger.plt[n].addr = StubAddr(elf, n)

\* C18: a refresh is idempotent: a second refresh with nothing in between
\* leaves every entry, its slot address and its formatted value included, as
\* the first one left it; in particular a refresh right after a Continue,
\* which ends in one, changes nothing.
C18_RefreshIdempotent ==
    /\ read_got(read_got(debugger, proc), proc) = read_got(debugger, proc)
    /\ (cmd.op = "continue_target" /\ log # <<>>)
         => read_got(debugger, proc) = debugger

\* A Continue that ended in a stop with a patched slot in the table; the
\* refresh repeated in that state reads the patched value again.
C18_Witness ==
    /\ cmd.op = "continue_target"
    /\ log # <<>>
    /\ IsStopped(proc)
    /\ \E n \in DOMAIN debugger.plt :
         /\ debugger.plt[n].got_value = HexStr(Resolved(SlotAddr(elf, n)))
         /\ read_got(debugger, proc).plt[n].got_value = debugger.plt[n].got_value

\* C19: when the process is not stopped after the resume of a Continue (it
\* has exited), the refresh is a no-op: every table entry, its value
\* included, is what it was before the Continue.
C19_NoRefreshWhenNotStopped ==
    [][(cmd'.op = "continue_target" /\ debugger.process # None
          /\ IsStopped(proc) /\ ~IsStopped(proc'))
         => debugger'.plt = debugger.plt]_vars

\* The stubs of the image whose name is not reserved and whose first
\* instruction has a hexadecimal slot address as its operand.
WellFormedStubs(img) ==
    {n \in Range(SymbolsOf(img)) :
        ~StartsWithUU(n) /\ IsHex(Tail(OperandOf(img, n)))}

\* C20: a stub whose operand cannot be parsed as a hexadecimal slot address
\* is skipped by the scan: after a Run that launched the process the table
\* holds every well-formed, non-reserved stub of the stub section.
C20_MalformedStubSkipped ==
    (cmd.op = "run_target" /\ cmd.arg = "launched" /\ debugger.target # None)
      => DOMAIN debugger.plt = WellFormedStubs(debugger.target)

\* The sections of a module that a live process has mapped.
MappedSections(m) == SelectSeq(SectionsOf(m), LAMBDA sec : sec.load # InvalidAddr)

MaxOf(S) == CHOOSE x \in S : \A y \in S : y <= x

\* C21: for every module that read_modules lists, the start address is the
\* load address minus the file offset of the first mapped section the
\* backend enumerates, and the end address is the highest load address plus
\* size over the mapped sections, whatever the order of enumeration.
C21_ModuleRange ==
    \A i \in DOMAIN read_modules(debugger, proc).list :
      LET m == read_modules(debugger, proc).list[i]
          secs == MappedSections(m.name)
      IN /\ ParseHex(m.start) = secs[1].load - secs[1].offset
         /\ ParseHex(m.end) = MaxOf({secs[j].load + secs[j].size : j \in DOMAIN secs})

\* C22: with no process attached (or no target), read_modules, get_modules
\* and get_sections return an empty sequence and do not raise.
C22_EmptyWithoutProcess ==
    debugger.process = None =>
      /\ ~read_modules(debugger, proc).none
      /\ read_modules(debugger, proc).list = <<>>
      /\ ~get_modules(debugger, proc).raised
      /\ get_modules(debugger, proc).data = <<>>
      /\ ~get_sections(debugger, proc).none
      /\ get_sections(debugger, proc).list = <<>>

\* A command in Load-Inspection mode has just emitted the module listing of
\* a session that has a process.
ListingEmitted ==
    /\ mode = DYN_LOAD
    /\ cmd.op \in {"run_target", "continue_target"}
    /\ debugger.process # None
    /\ out # <<>>
    /\ out[Len(out)] = "ModulesUpdated"

\* The modules a process has mapped when it is launched.
StartSnapshot == {debugger.target, "libc.so.6"}

\* C23: in every module listing emitted after Run a module is reported as
\* statically loaded exactly when it was mapped at the start of the process.
C23_StaticIffInSnapshot ==
    ListingEmitted =>
      \A i \in DOMAIN get_modules(debugger, proc).data :
        LET e == get_modules(debugger, proc).data[i]
        IN (e.kind = "Statically loaded") <=> (e.m.name \in StartSnapshot)

\* C24: in Load-Inspection mode every Continue that ends with the process
\* stopped, whatever the tag of the record it stopped on, has recomputed and
\* emitted the module listing.
C24_ListingAfterEveryStop ==
    (mode = DYN_LOAD /\ cmd.op = "continue_target"
       /\ debugger.process # None /\ IsStopped(proc))
      => "ModulesUpdated" \in Msgs

\* C26: when the file given to SetTarget is not a valid executable image
\* the failure is reported, no success is reported, and the session stays
\* in its pre-run state.
C26_InvalidFileReported ==
    (cmd.op = "set_elf" /\ cmd.arg \notin Images) =>
      /\ "elf_not_set" \in Msgs
      /\ "elf_set" \notin Msgs
      /\ state = START_BP_SET
      /\ debugger.process = None

\* The launch attempted by the Run just executed failed.
LaunchFailed ==
    /\ cmd.op = "run_target"
    /\ cmd.arg \in {"not launched", "invalid"}
    /\ debugger.target # None

\* C27: when the launch fails during Run the failure is reported, the phase
\* does not advance to the one that awaits the first stop, and no
\* breakpoint record and no table entry is created.
C27_LaunchFailureReported ==
    LaunchFailed =>
      /\ "launch_failed" \in Msgs
      /\ cmd.state # ON_BP_SHOW_PREV_FRAME => state # ON_BP_SHOW_PREV_FRAME
      /\ debugger.bps = <<>>
      /\ DOMAIN debugger.plt = {}

\* A Continue in Link-Inspection mode has just changed the phase.
LinkTransition ==
    /\ mode = DYN_LINK
    /\ cmd.op = "continue_target"
    /\ state # cmd.state

\* C25: in Link-Inspection mode every Continue that makes a phase
\* transition ends by emitting the table and the sections, and every value
\* of the emitted table equals the word the process holds at its slot.
C25_TablesAfterTransition ==
    LinkTransition =>
      /\ "TableUpdated" \in Msgs
      /\ "SectionsUpdated" \in Msgs
      /\ \A n \in DOMAIN debugger.plt :
           debugger.plt[n].got_value =
             HexStr(ReadPointerFromMemory(proc, ParseHex(debugger.plt[n].got_addr)))

\* int(text, 16) succeeds on a text that carries the 0x prefix.
WellFormedValue(text) == startswith_0x(text) /\ IsHex(DigitsOf(text))

\* C28: a WriteTableValue whose value is malformed (no 0x prefix, or not a
\* hexadecimal number) is rejected: no write reaches the engine, the memory
\* of the process and the table are unchanged.
C28_MalformedValueRejected ==
    [][(cmd'.op = "click_me" /\ ~WellFormedValue(cmd'.arg)) =>
         /\ proc' = proc
         /\ debugger' = debugger
         /\ log' = <<>>
         /\ "InvalidAddress" \in Range(out')]_vars

C28_Witness ==
    /\ cmd.op = "click_me"
    /\ ~WellFormedValue(cmd.arg)
    /\ IsStopped(proc)
    /\ DOMAIN debugger.plt # {}
    /\ "InvalidAddress" \in Msgs

\* The processes launched by the session that are live: the attached one
\* when it has not exited, and one that was left behind live.
LiveProcesses ==
    (IF IsStopped(proc) THEN 1 ELSE 0) + (IF orphaned THEN 1 ELSE 0)

\* C29: at most one inspected process is live at any time; a process
\* launched earlier has been stopped before another one is launched, also
\* when SetTarget or SetMode came in between.
C29_OneLiveProcess == LiveProcesses <= 1

\* A Continue in Load-Inspection mode, issued in the given phase, has just
\* been executed in a session that has a target.
LoadContinueFrom(ph) ==
    /\ mode = DYN_LOAD
    /\ cmd.op = "continue_target"
    /\ cmd.state = ph
    /\ debugger.target # None

\* The tags of the records at the entry of a routine.
EntryTags == {DLOPEN_BP, DLSYM_BP, DLCLOSE_BP, DYN_CALL_FUNC_BP}

\* C30: in Load-Inspection mode a Continue issued in ON_BP_SHOW_PREV_FRAME
\* resumes the process and, when the process stops on an entry breakpoint,
\* renders frame 1 and moves to ON_BP_SHOW_CURR_FRAME; a Continue issued in
\* ON_BP_SHOW_CURR_FRAME renders frame 0 without resuming the process and
\* moves back to ON_BP_SHOW_PREV_FRAME; the step counter is not touched.
C30_LoadAlternation ==
    /\ (LoadContinueFrom(ON_BP_SHOW_PREV_FRAME) /\ log # <<>>
          /\ log[1].ret.kind = "bp" /\ log[1].ret.tag \in EntryTags)
         => ("RenderFrame1" \in Msgs /\ state = ON_BP_SHOW_CURR_FRAME)
    /\ LoadContinueFrom(ON_BP_SHOW_CURR_FRAME)
         => (log = <<>> /\ "RenderFrame0" \in Msgs /\ state = ON_BP_SHOW_PREV_FRAME)
    /\ (mode = DYN_LOAD /\ cmd.op = "continue_target") => step = cmd.step

\* C39: in Load-Inspection mode a Continue that resumes the process
\* completes without raising whatever the resumes end in.  When the process
\* has exited, in the first or in the second resume, the exit is reported
\* and the Continue control is disabled; when it is stopped, the handler
\* reaches one of its two ends: the early return that renders frame 0, or
\* the refresh of the modules table.
C39_LoadContinueCompletes ==
    (LoadContinueFrom(ON_BP_SHOW_PREV_FRAME) /\ log # <<>>)
    => IF IsStopped(proc)
       THEN "ModulesUpdated" \in Msgs \/ out = <<"RenderFrame0">>
       ELSE "finished" \in Msgs /\ "continue_disabled" \in Msgs

\* C40: the selection the controller records (bp_func) is none or names an
\* entry of the current stub table whose stub breakpoint is the enabled one,
\* also right after a Run or a SetTarget issued while a stub breakpoint was
\* selected and enabled.
C40_SelectionFollowsSession ==
    (mode = DYN_LINK /\ cmd.op \in {"run_target", "set_elf"} /\ cmd.sel # {})
    => \/ bp_func = None
       \/ /\ bp_func \in DOMAIN debugger.plt
          /\ {debugger.bps[i].addr : i \in EnabledStubs(debugger)}
               = {debugger.plt[bp_func].addr}

---------------------------------------------------------------------------
(* The delivery of the commands *)

C32_FinishedIsTerminal ==
    /\ (cmd.finished /\ cmd.op = "continue_target")
       => /\ Finished
          /\ state = cmd.state
          /\ log = <<>>
          /\ "finished" \in Msgs
          /\ "continue_disabled" \in Msgs
    /\ (cmd.finished /\ ~Finished)
       => cmd.op \in {"run_target", "set_elf", "set_app_mode"}

\* A Continue issued after the exit of the process was reported, with the
\* exited process still attached.
C32_Witness ==
    /\ cmd.finished
    /\ cmd.op = "continue_target"
    /\ proc.st = "exited"
    /\ debugger.process # None

\* C35: a narration cycle that starts with a stop on the selected stub
\* takes 7 more Continues (first call) or 3 more (resolved call) to return
\* to ON_BP_SHOW_PREV_FRAME, and the process is single-stepped 5 times or
\* once on the way.  The process is therefore stepped off the address of
\* the selected stub before it is resumed again: no Continue of the
\* dynamic-linking mode resumes the process from the address of the stub
\* breakpoint that was enabled when the Continue was issued.
C35_CycleStepsOffTheStub ==
    ~ /\ LinkContinueFrom(ON_BP_SHOW_PREV_FRAME)
      /\ log # <<>>
      /\ log[1].op = "continue"
      /\ log[1].from \in cmd.sel

---------------------------------------------------------------------------
(* The dispatch of the callbacks, for every place of a stop *)

\* The callbacks install records at the return address of the current call
\* and at the address a lookup returned.  Both are values of the inspected
\* process, which the engine does not choose.  Here the process of a
\* session stops at any enabled address, with any of these return addresses
\* and lookup results, the stop address included.
ReturnAddrs == {97, 98}
LookupResults == {<<6, 1>>, <<14, 1>>}

\* The indices of the records whose callback one dispatch invokes, in the
\* order of the invocations: the loop of invoke_breakpoint_callback.
RECURSIVE InvokedFrom(_, _, _)
InvokedFrom(d, p, i) ==
    IF i > Len(d.bps) THEN <<>>
    ELSE IF get_pc_from_frame(d, p, 0) = d.bps[i].addr
         THEN <<i>> \o InvokedFrom(Call(d.bps[i].callback, d, p), p, i + 1)
         ELSE InvokedFrom(d, p, i + 1)

\* The process stops at the enabled address a, with return address f and
\* return value e, and the callbacks of the stop are dispatched.
Stop(a, f, e) ==
    LET p == [proc EXCEPT !.pc = a, !.fp1 = f, !.eax = e]
    IN /\ Len(debugger.bps) < MaxBps
       /\ IsStopped(proc)
       /\ f # a
       /\ proc' = p
       /\ debugger' = invoke_breakpoint_callback(debugger, p)
       /\ log' = <<[op |-> "dispatch", pc |-> a, pre |-> Len(debugger.bps),
                    invoked |-> InvokedFrom(debugger, p, 1)]>>
       /\ UNCHANGED <<mode, state, step, elf, bp_func, out, cmd, orphaned, failure>>
       /\ UNCHANGED delivery

NextDispatch ==
    \/ \E path \in Files : SetTarget(path)
    \/ \E m \in {DYN_LINK, DYN_LOAD} : SetMode(m)
    \/ \E ok \in LaunchOutcomes(debugger, failure) : Run(ok)
    \/ \E a \in EnabledAddrs(debugger), f \in ReturnAddrs, e \in LookupResults :
          Stop(a, f, e)

SpecDispatch == Init /\ [][NextDispatch]_vars

\* C38: a dispatch invokes the callback of each record that was at the
\* stop address when the dispatch started, once each and in the order of the
\* registry, and invokes the callback of no record that a callback appended
\* during the dispatch.
C38_DispatchRunsStartingRecordsOnly ==
    (log # <<>> /\ log[1].op = "dispatch")
    => LET matched == {i \in 1..log[1].pre : debugger.bps[i].addr = log[1].pc}
       IN /\ Range(log[1].invoked) = matched
          /\ Len(log[1].invoked) = Cardinality(matched)

====
